---- MODULE Spec2Model ----
(***************************************************************************)
(* Model of TelecomChurnAnalyzer (src/telecom_churn_analyzer.py): the      *)
(* load -> clean -> derive -> analyze -> render pipeline over an in-memory *)
(* table, with pandas' operations modelled by what they do to the cells.   *)
(*                                                                         *)
(* A table is [none, cols, rows]: cols is the column list in declaration   *)
(* order, each column [name, dtype]; rows is the row list, each row a      *)
(* tuple of cells. A cell is [k, n, d, s]: k is "num" (the rational n/d),   *)
(* "nan" (missing), "inf", "str" (the text s), "dict" or "list" (a nested  *)
(* value whose str() is s). Column names are tuples of characters so that  *)
(* lower() and the substring test are computed, not assumed.               *)
(***************************************************************************)
EXTENDS Integers, Sequences, FiniteSets, TLC

\* Largest number of records in a source (bound of the model).
MaxRows == 3

----------------------------------------------------------------------------
\* Numbers: rationals n/d in lowest terms, d > 0.

Abs(x) == IF x < 0 THEN -x ELSE x

RECURSIVE Gcd(_, _)
Gcd(a, b) == IF b = 0 THEN a ELSE Gcd(b, a % b)

Cell(k, n, d, s) == [k |-> k, n |-> n, d |-> d, s |-> s]

NaN == Cell("nan", 0, 1, "")
Inf == Cell("inf", 0, 1, "")
Str(s) == Cell("str", 0, 1, s)
Dict(s) == Cell("dict", 0, 1, s)
List(s) == Cell("list", 0, 1, s)

\* The float n/d (d # 0), in lowest terms.
Num(n, d) ==
    LET g == Gcd(Abs(n), Abs(d))
        sg == IF d < 0 THEN -1 ELSE 1
    IN  Cell("num", sg * (n \div g), sg * (d \div g), "")

isna(c) == c.k = "nan"

\* Float division as numpy does it: x/0 is inf (nan for 0/0), nan propagates.
\* Only non-negative numerators occur.
TrueDiv(a, b) ==
    IF a.k = "nan" \/ b.k = "nan" THEN NaN
    ELSE IF a.k = "inf" THEN Inf
    ELSE IF b.n = 0 THEN (IF a.n = 0 THEN NaN ELSE Inf)
    ELSE Num(a.n * b.d, a.d * b.n)

----------------------------------------------------------------------------
\* Column names.

UpperCase == <<"A","B","C","D","E","F","G","H","I","J","K","L","M",
               "N","O","P","Q","R","S","T","U","V","W","X","Y","Z">>
LowerCase == <<"a","b","c","d","e","f","g","h","i","j","k","l","m",
               "n","o","p","q","r","s","t","u","v","w","x","y","z">>

\* str.lower(), character by character.
LowerChar(ch) ==
    IF \E i \in 1..Len(UpperCase) : UpperCase[i] = ch
    THEN LowerCase[CHOOSE i \in 1..Len(UpperCase) : UpperCase[i] = ch]
    ELSE ch

lower(name) == [i \in 1..Len(name) |-> LowerChar(name[i])]

\* Python's `needle in hay` on strings.
Contains(hay, needle) ==
    \E i \in 0..(Len(hay) - Len(needle)) :
        SubSeq(hay, i + 1, i + Len(needle)) = needle

ChurnName == <<"C","h","u","r","n">>
MonthlyChargesName == <<"M","o","n","t","h","l","y","C","h","a","r","g","e","s">>
DailyChargesName == <<"D","a","i","l","y","C","h","a","r","g","e","s">>
ChargeWord == <<"c","h","a","r","g","e">>
CargosWord == <<"c","a","r","g","o","s">>
\* The sentinel fillna puts in object columns.
Desconocido == "Desconocido"

\* Names that occur only in the sources the model enumerates.
TotalCargosName == <<"T","o","t","a","l","C","a","r","g","o","s">>
TotalChargesName == <<"T","o","t","a","l","C","h","a","r","g","e","s">>
LowerChurnName == <<"c","h","u","r","n">>
CustomerIDName == <<"c","u","s","t","o","m","e","r","I","D">>
TenureName == <<"t","e","n","u","r","e">>
TagsName == <<"t","a","g","s">>

----------------------------------------------------------------------------
\* Tables.

Col(name, dtype) == [name |-> name, dtype |-> dtype]

NoneDF == [none |-> TRUE, cols |-> <<>>, rows |-> <<>>]
DF(cols, rows) == [none |-> FALSE, cols |-> cols, rows |-> rows]

ColNames(t) == {t.cols[i].name : i \in 1..Len(t.cols)}
HasCol(t, name) == name \in ColNames(t)
ColIdx(t, name) == CHOOSE i \in 1..Len(t.cols) : t.cols[i].name = name
Column(t, i) == [r \in 1..Len(t.rows) |-> t.rows[r][i]]

----------------------------------------------------------------------------
\* pandas operations used by the analyzer.

\* Series.astype(str) on one cell of an object column: str(x) of the value;
\* a missing value becomes the text "nan" and is no longer missing. Object
\* columns of the enumerated sources hold text, nested values or missing.
astype_str(c) ==
    IF c.k = "nan" THEN Str("nan") ELSE Str(c.s)

\* df[col].apply(lambda x: isinstance(x, dict)).any()
AnyDict(t, i) == \E r \in 1..Len(t.rows) : t.rows[r][i].k = "dict"

\* The loop of clean_data over the columns: a column with a dict cell is
\* replaced by its astype(str); the other columns are left alone.
StringifyDictColumns(t) ==
    DF(t.cols,
       [r \in 1..Len(t.rows) |->
          [i \in 1..Len(t.cols) |->
             IF AnyDict(t, i) THEN astype_str(t.rows[r][i]) ELSE t.rows[r][i]]])

\* Hashing a row fails on a dict or a list cell (TypeError: unhashable type).
Unhashable(t) ==
    \E r \in 1..Len(t.rows) : \E i \in 1..Len(t.cols) :
        t.rows[r][i].k \in {"dict", "list"}

\* Indices of the rows drop_duplicates keeps: the first occurrence of each
\* row, in order. Missing values compare equal to each other.
RECURSIVE KeptFrom(_, _)
KeptFrom(rows, r) ==
    IF r > Len(rows) THEN <<>>
    ELSE IF \E q \in 1..(r - 1) : rows[q] = rows[r]
         THEN KeptFrom(rows, r + 1)
         ELSE <<r>> \o KeptFrom(rows, r + 1)

KeptIdx(rows) == KeptFrom(rows, 1)

drop_duplicates(t) ==
    LET keep == KeptIdx(t.rows)
    IN  DF(t.cols, [j \in 1..Len(keep) |-> t.rows[keep[j]]])

\* The value fillna writes into a missing cell of a column of this dtype;
\* select_dtypes picks object columns for the text fill and float/int
\* columns for the numeric fill, and any other dtype is left as it is.
\* Variant: the numeric fill is left out.
FillValue_TextOnly(dtype) ==
    IF dtype = "object" THEN Str(Desconocido) ELSE NaN

FillValue(dtype) ==
    IF dtype = "object" THEN Str(Desconocido)
    ELSE IF dtype \in {"float64", "int64"} THEN Num(0, 1)
    ELSE NaN

fillna(t) ==
    DF(t.cols,
       [r \in 1..Len(t.rows) |->
          [i \in 1..Len(t.cols) |->
             IF isna(t.rows[r][i]) THEN FillValue(t.cols[i].dtype)
             ELSE t.rows[r][i]]])

\* Distinct non-missing values of a column (value_counts and groupby both
\* drop missing keys).
Labels(t, i) == {t.rows[r][i] : r \in {q \in 1..Len(t.rows) : ~isna(t.rows[q][i])}}

RowsWith(t, i, l) == {r \in 1..Len(t.rows) : t.rows[r][i] = l}

\* Series.value_counts(): label -> number of rows.
value_counts(t, i) == [l \in Labels(t, i) |-> Cardinality(RowsWith(t, i, l))]

\* Variant: normalize=True is left out.
value_counts_normalized_Raw(t, i) ==
    [l \in Labels(t, i) |-> Num(Cardinality(RowsWith(t, i, l)), 1)]

\* Series.value_counts(normalize=True): label -> count / number of
\* non-missing rows.
value_counts_normalized(t, i) ==
    LET total == Cardinality({r \in 1..Len(t.rows) : ~isna(t.rows[r][i])})
    IN  [l \in Labels(t, i) |-> Num(Cardinality(RowsWith(t, i, l)), total)]

\* Sum of the numbers of the column c over the row set R.
RECURSIVE SumOver(_, _, _)
SumOver(t, c, R) ==
    IF R = {} THEN Num(0, 1)
    ELSE LET r == CHOOSE x \in R : TRUE
             rest == SumOver(t, c, R \ {r})
             v == t.rows[r][c]
         IN  Num(rest.n * v.d + v.n * rest.d, rest.d * v.d)

\* Mean of one group, skipping missing values as pandas does.
GroupMean(t, c, R) ==
    LET V == {r \in R : ~isna(t.rows[r][c])}
    IN  IF V = {} THEN NaN
        ELSE IF \E r \in V : t.rows[r][c].k = "inf" THEN Inf
        ELSE LET s == SumOver(t, c, V)
             IN  Num(s.n, s.d * Cardinality(V))

\* df.groupby(by)[c].mean().to_dict()
groupby_mean(t, by, c) ==
    [l \in Labels(t, by) |-> GroupMean(t, c, RowsWith(t, by, l))]

----------------------------------------------------------------------------
\* The methods of TelecomChurnAnalyzer, as functions of the fields they read.
\* Each returns err ("none" when the method returns normally, else the
\* exception that leaves it) and the value it assigns.

NoResults == [set |-> FALSE, churn_rate |-> <<>>, avg_charges |-> <<>>,
              total_customers |-> 0]
NoDoc == [written |-> FALSE, total_customers |-> 0, churn_rate |-> <<>>,
          avg_charges |-> <<>>, chart |-> <<>>]

\* load_data: every exception of the try block is caught, printed and turned
\* into raw_data = None; the method itself returns normally.
load_data(s) ==
    IF s.url THEN (IF s.fetch = "ok" THEN s.table ELSE NoneDF)
    ELSE IF s.file_path THEN (IF s.fetch = "ok" THEN s.table ELSE NoneDF)
    ELSE NoneDF

\* clean_data: stringify the dict columns, drop duplicates, then fill.
clean_data(raw) ==
    IF raw.none THEN [err |-> "AttributeError", df |-> NoneDF]
    ELSE LET t1 == StringifyDictColumns(raw)
         IN  IF Unhashable(t1) THEN [err |-> "TypeError", df |-> NoneDF]
             ELSE [err |-> "none", df |-> fillna(drop_duplicates(t1))]

\* df[name] = values: an existing column of that name is replaced where it
\* stands, a new one is appended after the last column.
SetColumn(t, name, values) ==
    IF HasCol(t, name)
    THEN LET c == ColIdx(t, name)
         IN  DF([i \in 1..Len(t.cols) |->
                    IF i = c THEN Col(name, "float64") ELSE t.cols[i]],
                [r \in 1..Len(t.rows) |->
                    [i \in 1..Len(t.cols) |->
                        IF i = c THEN values[r] ELSE t.rows[r][i]]])
    ELSE DF(Append(t.cols, Col(name, "float64")),
            [r \in 1..Len(t.rows) |-> Append(t.rows[r], values[r])])

\* Variant: divides by the default 30.42 whatever the argument.
create_daily_column_DefaultDays(t, days_per_month) ==
    IF ~HasCol(t, MonthlyChargesName) THEN [err |-> "none", df |-> t]
    ELSE LET m == ColIdx(t, MonthlyChargesName)
         IN  IF \E r \in 1..Len(t.rows) : t.rows[r][m].k = "str"
             THEN [err |-> "TypeError", df |-> t]
             ELSE [err |-> "none",
                   df |-> SetColumn(t, DailyChargesName,
                            [r \in 1..Len(t.rows) |->
                                TrueDiv(t.rows[r][m], Num(1521, 50))])]

\* create_daily_column: dividing a column of text raises TypeError.
create_daily_column(t, days_per_month) ==
    IF ~HasCol(t, MonthlyChargesName) THEN [err |-> "none", df |-> t]
    ELSE LET m == ColIdx(t, MonthlyChargesName)
         IN  IF \E r \in 1..Len(t.rows) : t.rows[r][m].k = "str"
             THEN [err |-> "TypeError", df |-> t]
             ELSE [err |-> "none",
                   df |-> SetColumn(t, DailyChargesName,
                            [r \in 1..Len(t.rows) |->
                                TrueDiv(t.rows[r][m], days_per_month)])]

\* The test of the loop that looks for the charge column.
IsChargeName(name) ==
    Contains(lower(name), ChargeWord) \/ Contains(lower(name), CargosWord)

\* Variant: the loop without its break, which ends on the last match.
RECURSIVE FindChargeCol_NoBreak(_, _)
FindChargeCol_NoBreak(t, i) ==
    IF i > Len(t.cols) THEN 0
    ELSE LET later == FindChargeCol_NoBreak(t, i + 1)
         IN  IF later # 0 THEN later
             ELSE IF IsChargeName(t.cols[i].name) THEN i ELSE 0

\* The loop itself: the index of the first column, from i on, that passes
\* the test (break), 0 when the loop runs off the end (charge_col = None).
RECURSIVE FindChargeCol(_, _)
FindChargeCol(t, i) ==
    IF i > Len(t.cols) THEN 0
    ELSE IF IsChargeName(t.cols[i].name) THEN i
    ELSE FindChargeCol(t, i + 1)

\* Variant: the check for the Churn column is left out and a table without
\* it yields empty results.
analyze_data_NoChurnCheck(t) ==
    [err |-> "none",
     results |-> [set |-> TRUE, churn_rate |-> <<>>, avg_charges |-> <<>>,
                  total_customers |-> Len(t.rows)],
     charge_col |-> 0]

\* analyze_data: mean() of a text column raises TypeError.
analyze_data(t) ==
    IF ~HasCol(t, ChurnName)
    THEN [err |-> "KeyError", results |-> NoResults, charge_col |-> 0]
    ELSE LET ch == ColIdx(t, ChurnName)
             cc == FindChargeCol(t, 1)
         IN  IF cc # 0 /\ \E r \in 1..Len(t.rows) : t.rows[r][cc].k = "str"
             THEN [err |-> "TypeError", results |-> NoResults, charge_col |-> cc]
             ELSE [err |-> "none",
                   results |->
                     [set |-> TRUE,
                      churn_rate |-> value_counts_normalized(t, ch),
                      avg_charges |-> IF cc # 0 THEN groupby_mean(t, ch, cc)
                                      ELSE <<>>,
                      total_customers |-> Len(t.rows)],
                   charge_col |-> cc]

\* generate_report: plot_churn reads df["Churn"], the template reads the
\* three keys of results, and the document is written last.
generate_report(t, res) ==
    IF ~HasCol(t, ChurnName) \/ ~res.set THEN [err |-> "KeyError", doc |-> NoDoc]
    ELSE [err |-> "none",
          doc |-> [written |-> TRUE,
                   total_customers |-> res.total_customers,
                   churn_rate |-> res.churn_rate,
                   avg_charges |-> res.avg_charges,
                   chart |-> value_counts(t, ColIdx(t, ChurnName))]]

----------------------------------------------------------------------------
\* The sources the runs are given. A JSON array of records yields a table
\* with one row per record and a column per key seen, so a table with
\* columns has at least one row and the empty array has no column at all.

Schema(cols, doms) == [cols |-> cols, doms |-> doms]

Yes == Str("Yes")
No == Str("No")

Schemas ==
    { \* churn labels and a numeric monthly charge, with missing cells
      Schema(<<Col(ChurnName, "object"), Col(MonthlyChargesName, "float64")>>,
             <<{Yes, No, NaN}, {Num(60, 1), NaN}>>),
      \* numeric churn flag, no charge column
      Schema(<<Col(ChurnName, "float64"), Col(TenureName, "float64")>>,
             <<{Num(0, 1), Num(1, 1), NaN}, {Num(1, 1)}>>),
      \* no column literally named Churn
      Schema(<<Col(CustomerIDName, "object"), Col(LowerChurnName, "object")>>,
             <<{Str("A"), Str(Desconocido), NaN}, {Yes}>>),
      \* two charge columns, the Spanish one first
      Schema(<<Col(ChurnName, "object"), Col(TotalCargosName, "float64"),
               Col(MonthlyChargesName, "float64")>>,
             <<{Yes, No}, {Num(10, 1), Num(20, 1)}, {Num(60, 1)}>>),
      \* a DailyCharges column already in the source
      Schema(<<Col(ChurnName, "object"), Col(MonthlyChargesName, "float64"),
               Col(DailyChargesName, "float64")>>,
             <<{Yes}, {Num(0, 1), Num(60, 1)}, {Num(5, 1), NaN}>>),
      \* a column of nested values
      Schema(<<Col(ChurnName, "object"), Col(TagsName, "object")>>,
             <<{Yes}, {Dict("{'a': 1}"), List("['a']"), Str("x"), NaN}>>),
      \* monthly charges given as text
      Schema(<<Col(ChurnName, "object"), Col(MonthlyChargesName, "object")>>,
             <<{Yes, No}, {Str("60"), NaN}>>),
      \* total charges given as text
      Schema(<<Col(ChurnName, "object"), Col(TotalChargesName, "object")>>,
             <<{Yes, No}, {Str("60"), Str("")}>>) }

RowsOf(sc) ==
    {r \in [1..Len(sc.doms) -> UNION {sc.doms[i] : i \in 1..Len(sc.doms)}] :
        \A i \in 1..Len(sc.doms) : r[i] \in sc.doms[i]}

TablesOf(sc) ==
    {DF(sc.cols, rows) : rows \in UNION {[1..n -> RowsOf(sc)] : n \in 1..MaxRows}}

EmptyTable == DF(<<>>, <<>>)

Tables == {EmptyTable} \cup UNION {TablesOf(sc) : sc \in Schemas}

HasDictCell(t) ==
    \E r \in 1..Len(t.rows) : \E i \in 1..Len(t.cols) : t.rows[r][i].k = "dict"

Source(url, file_path, fetch, table) ==
    [url |-> url, file_path |-> file_path, fetch |-> fetch, table |-> table]

\* json_normalize flattens nested objects into dotted columns, so a dict
\* cell reaches the table only through read_json (the file path).
Sources ==
    {Source(FALSE, TRUE, "ok", t) : t \in Tables}
    \cup {Source(TRUE, FALSE, "ok", t) : t \in {x \in Tables : ~HasDictCell(x)}}
    \cup {Source(FALSE, FALSE, "ok", NoneDF),
          Source(TRUE, FALSE, "http_error", NoneDF),
          Source(TRUE, FALSE, "unparseable", NoneDF),
          Source(FALSE, TRUE, "unparseable", NoneDF)}

\* days_per_month: the default 30.42, another divisor, and zero.
DaysChoices == {Num(1521, 50), Num(30, 1), Num(0, 1)}

----------------------------------------------------------------------------
\* run_and_report as a state machine: one action per stage it calls.

VARIABLES
    src,        \* url / file_path of the current run and what they yield
    days,       \* days_per_month of the current run
    pc,         \* the stage run_and_report is about to call, "done", "aborted"
    failed,     \* the stage whose exception ended the run, or "none"
    err,        \* that exception
    raw_data,   \* self.raw_data
    df,         \* self.df
    results,    \* self.results
    doc,        \* the document at output_html
    origin      \* per field, where its value comes from: "init" (set by
                \* __init__), "current" (assigned by the run in progress)
                \* or "earlier" (assigned by a run before it)

vars == <<src, days, pc, failed, err, raw_data, df, results, doc, origin>>

Fields == {"raw_data", "df", "results"}
Assign(o, f) == [o EXCEPT ![f] = "current"]

\* __init__, and the arguments of the first run.
Init ==
    /\ src \in Sources
    /\ days \in DaysChoices
    /\ pc = "load"
    /\ failed = "none"
    /\ err = "none"
    /\ raw_data = NoneDF
    /\ df = NoneDF
    /\ results = NoResults
    /\ doc = NoDoc
    /\ origin = [f \in Fields |-> "init"]

Load ==
    /\ pc = "load"
    /\ raw_data' = load_data(src)
    /\ origin' = Assign(origin, "raw_data")
    /\ pc' = "clean"
    /\ UNCHANGED <<src, days, failed, err, df, results, doc>>

Clean ==
    /\ pc = "clean"
    /\ LET out == clean_data(raw_data)
       IN  IF out.err = "none"
           THEN /\ df' = out.df
                /\ origin' = Assign(origin, "df")
                /\ pc' = "derive"
                /\ UNCHANGED <<failed, err>>
           ELSE /\ pc' = "aborted"
                /\ failed' = "clean"
                /\ err' = out.err
                /\ UNCHANGED <<df, origin>>
    /\ UNCHANGED <<src, days, raw_data, results, doc>>

Derive ==
    /\ pc = "derive"
    /\ LET out == create_daily_column(df, days)
       IN  IF out.err = "none"
           THEN /\ df' = out.df
                /\ pc' = "analyze"
                /\ UNCHANGED <<failed, err>>
           ELSE /\ pc' = "aborted"
                /\ failed' = "derive"
                /\ err' = out.err
                /\ UNCHANGED df
    /\ UNCHANGED <<src, days, raw_data, results, doc, origin>>

Analyze ==
    /\ pc = "analyze"
    /\ LET out == analyze_data(df)
       IN  IF out.err = "none"
           THEN /\ results' = out.results
                /\ origin' = Assign(origin, "results")
                /\ pc' = "render"
                /\ UNCHANGED <<failed, err>>
           ELSE /\ pc' = "aborted"
                /\ failed' = "analyze"
                /\ err' = out.err
                /\ UNCHANGED <<results, origin>>
    /\ UNCHANGED <<src, days, raw_data, df, doc>>

Render ==
    /\ pc = "render"
    /\ LET out == generate_report(df, results)
       IN  IF out.err = "none"
           THEN /\ doc' = out.doc
                /\ pc' = "done"
                /\ UNCHANGED <<failed, err>>
           ELSE /\ pc' = "aborted"
                /\ failed' = "render"
                /\ err' = out.err
                /\ UNCHANGED doc
    /\ UNCHANGED <<src, days, raw_data, df, results, origin>>

Next == Load \/ Clean \/ Derive \/ Analyze \/ Render

Spec == Init /\ [][Next]_vars

----------------------------------------------------------------------------
\* Several runs on one analyzer instance: run_and_report is called again
\* once the previous call has returned or raised. The fields and the
\* document stay as the previous run left them.

RerunSources ==
    { \* two customers, one charge column
      Source(TRUE, FALSE, "ok",
             DF(<<Col(ChurnName, "object"), Col(MonthlyChargesName, "float64")>>,
                <<<<Yes, Num(60, 1)>>, <<No, NaN>>>>)),
      \* one customer
      Source(FALSE, TRUE, "ok",
             DF(<<Col(ChurnName, "object"), Col(MonthlyChargesName, "float64")>>,
                <<<<No, Num(0, 1)>>>>)),
      \* no Churn column
      Source(FALSE, TRUE, "ok",
             DF(<<Col(CustomerIDName, "object"), Col(LowerChurnName, "object")>>,
                <<<<Str("A"), Yes>>>>)),
      \* a list cell
      Source(TRUE, FALSE, "ok",
             DF(<<Col(ChurnName, "object"), Col(TagsName, "object")>>,
                <<<<Yes, List("['a']")>>>>)),
      \* monthly charges given as text
      Source(FALSE, TRUE, "ok",
             DF(<<Col(ChurnName, "object"), Col(MonthlyChargesName, "object")>>,
                <<<<Yes, Str("60")>>>>)),
      Source(FALSE, FALSE, "ok", NoneDF),
      Source(TRUE, FALSE, "http_error", NoneDF) }

InitRuns ==
    /\ src \in RerunSources
    /\ days \in DaysChoices
    /\ pc = "load"
    /\ failed = "none"
    /\ err = "none"
    /\ raw_data = NoneDF
    /\ df = NoneDF
    /\ results = NoResults
    /\ doc = NoDoc
    /\ origin = [f \in Fields |-> "init"]

Rerun ==
    /\ pc \in {"done", "aborted"}
    /\ src' \in RerunSources
    /\ days' \in DaysChoices
    /\ pc' = "load"
    /\ failed' = "none"
    /\ err' = "none"
    /\ origin' = [f \in Fields |->
                    IF origin[f] = "init" THEN "init" ELSE "earlier"]
    /\ UNCHANGED <<raw_data, df, results, doc>>

NextRuns == Load \/ Clean \/ Derive \/ Analyze \/ Render \/ Rerun

SpecRuns == InitRuns /\ [][NextRuns]_vars

----------------------------------------------------------------------------
\* Properties.

\* The stage of clean_data has completed in the current run and df is as
\* clean_data left it.
JustCleaned == pc = "derive"

NoDuplicateRows(t) ==
    \A p, q \in 1..Len(t.rows) : p # q => t.rows[p] # t.rows[q]

\* C1: the table clean_data produces has no two rows equal in all columns,
\* and clean_data applied to it again returns normally with the same table.
C1_DedupIdempotent ==
    JustCleaned =>
        /\ NoDuplicateRows(df)
        /\ clean_data(df).err = "none"
        /\ clean_data(df).df = df

\* A source load_data cannot load: no selector, a failed fetch, or content
\* that does not parse.
SourceFails(s) == (~s.url /\ ~s.file_path) \/ s.fetch # "ok"

\* C2: once load_data has run on a source it cannot load, the run is over,
\* ended by an exception of the load stage, and no document is written.
C2_LoadFailureAbortsAtLoad ==
    (SourceFails(src) /\ pc # "load") =>
        /\ pc = "aborted"
        /\ failed = "load"
        /\ doc = NoDoc

\* C3: when the cleaned table has no column named Churn, analyze_data
\* raises KeyError, generate_report is never called and no document is
\* written.
C3_MissingChurnAborts ==
    (origin["df"] = "current" /\ ~HasCol(df, ChurnName)) =>
        /\ analyze_data(df).err = "KeyError"
        /\ pc \in {"derive", "analyze", "aborted"}
        /\ pc = "aborted" => (failed = "analyze" /\ err = "KeyError")
        /\ doc = NoDoc

C3_Witness ==
    /\ pc = "aborted"
    /\ failed = "analyze"
    /\ err = "KeyError"
    /\ ~HasCol(df, ChurnName)
    /\ Len(df.rows) > 0

\* Text-typed and numeric-typed columns.
IsText(c) == c.dtype = "object"
IsNumeric(c) == c.dtype \in {"float64", "int64"}

\* The row of raw_data that row j of the freshly cleaned df comes from.
SourceRow(j) == KeptIdx(StringifyDictColumns(raw_data).rows)[j]

NoMissingLeft ==
    \A j \in 1..Len(df.rows) : \A i \in 1..Len(df.cols) :
        (IsText(df.cols[i]) \/ IsNumeric(df.cols[i])) => ~isna(df.rows[j][i])

MissingNumericHoldZero ==
    \A j \in 1..Len(df.rows) : \A i \in 1..Len(df.cols) :
        (IsNumeric(raw_data.cols[i]) /\ isna(raw_data.rows[SourceRow(j)][i]))
            => df.rows[j][i] = Num(0, 1)

\* Every cell that was missing in a text column holds the text `sentinel`.
MissingTextHold(sentinel) ==
    \A j \in 1..Len(df.rows) : \A i \in 1..Len(df.cols) :
        (IsText(raw_data.cols[i]) /\ isna(raw_data.rows[SourceRow(j)][i]))
            => df.rows[j][i] = Str(sentinel)

JustAnalyzed == pc = "render"

ChurnValues == {df.rows[r][ColIdx(df, ChurnName)] : r \in 1..Len(df.rows)}

CountOf(l) ==
    Cardinality({r \in 1..Len(df.rows) : df.rows[r][ColIdx(df, ChurnName)] = l})

\* Sum of the values of the map f over the keys in S, as a pair <<n, d>>.
RECURSIVE SumValues(_, _)
SumValues(f, S) ==
    IF S = {} THEN <<0, 1>>
    ELSE LET l == CHOOSE x \in S : TRUE
             rest == SumValues(f, S \ {l})
         IN  <<rest[1] * f[l].d + f[l].n * rest[2], rest[2] * f[l].d>>

\* C5: the keys of churn_rate are the distinct values of the Churn column,
\* each value is the label's row count over the row count of the table, and
\* the values sum to 1 (the counts sum to total_customers).
C5_ChurnRateNormalized ==
    JustAnalyzed =>
        LET rate == results.churn_rate
            total == SumValues(rate, DOMAIN rate)
        IN  /\ DOMAIN rate = ChurnValues
            /\ \A l \in DOMAIN rate :
                 /\ rate[l].k = "num"
                 /\ rate[l].n * Len(df.rows) = CountOf(l) * rate[l].d
            /\ total[1] = total[2]
            /\ results.total_customers = Len(df.rows)

C5_Witness ==
    /\ JustAnalyzed
    /\ Cardinality(DOMAIN results.churn_rate) = 2
    /\ \E l \in DOMAIN results.churn_rate : results.churn_rate[l] # Num(1, 2)

\* Columns whose name contains "charge" or "cargos" in any letter case,
\* listed by name.
ChargeNames ==
    {MonthlyChargesName, DailyChargesName, TotalCargosName, TotalChargesName}

MatchingCols(t) == {i \in 1..Len(t.cols) : t.cols[i].name \in ChargeNames}

\* The first matching column in declaration order, 0 when none matches.
FirstMatch(t) ==
    IF MatchingCols(t) = {} THEN 0
    ELSE CHOOSE i \in MatchingCols(t) : \A j \in MatchingCols(t) : i <= j

\* Sum of column c over the rows r..Len(rows) whose Churn value is l, as a
\* pair <<n, d>>.
RECURSIVE SumOfGroup(_, _, _)
SumOfGroup(c, l, r) ==
    IF r > Len(df.rows) THEN <<0, 1>>
    ELSE LET rest == SumOfGroup(c, l, r + 1)
             v == df.rows[r][c]
         IN  IF df.rows[r][ColIdx(df, ChurnName)] = l
             THEN <<rest[1] * v.d + v.n * rest[2], rest[2] * v.d>>
             ELSE rest

\* C7: the charge column is the first column, in declaration order, whose
\* name contains "charge" or "cargos" case-insensitively; avg_charges maps
\* each distinct Churn value to the mean of that column over its rows; with
\* no such column avg_charges is empty, analyze_data returns and the run
\* completes with the document written.
C7_FirstChargeColumn ==
    /\ (pc = "analyze" /\ HasCol(df, ChurnName)) =>
          analyze_data(df).charge_col = FirstMatch(df)
    /\ JustAnalyzed =>
          LET cc == FirstMatch(df)
              avg == results.avg_charges
          IN  IF cc = 0 THEN avg = <<>>
              ELSE /\ DOMAIN avg = ChurnValues
                   /\ \A l \in DOMAIN avg :
                        LET sum == SumOfGroup(cc, l, 1)
                        IN  /\ avg[l].k = "num"
                            /\ avg[l].n * CountOf(l) * sum[2] = sum[1] * avg[l].d
    /\ (/\ origin["df"] = "current"
        /\ pc \in {"render", "done", "aborted"}
        /\ HasCol(df, ChurnName)
        /\ FirstMatch(df) = 0) =>
          /\ pc # "aborted"
          /\ results.set /\ results.avg_charges = <<>>
          /\ pc = "done" => (doc.written /\ doc.avg_charges = <<>>)

C7_Witness ==
    /\ JustAnalyzed
    /\ Cardinality(MatchingCols(df)) >= 2
    /\ df.cols[FirstMatch(df)].name = TotalCargosName
    /\ \E l \in DOMAIN results.avg_charges : results.avg_charges[l] = Num(15, 1)

\* C8: with a non-zero days_per_month, create_daily_column on a table with a
\* MonthlyCharges column leaves DailyCharges[i] = MonthlyCharges[i] /
\* days_per_month in every row; on a table without it the call returns
\* normally and the table is as it was.
C8_DailyChargeIdentity ==
    [][(pc = "derive" /\ days.n # 0) =>
         IF HasCol(df, MonthlyChargesName)
         THEN pc' = "analyze" =>
                /\ HasCol(df', DailyChargesName)
                /\ \A r \in 1..Len(df'.rows) :
                     LET m == df'.rows[r][ColIdx(df', MonthlyChargesName)]
                         x == df'.rows[r][ColIdx(df', DailyChargesName)]
                     IN  /\ m = df.rows[r][ColIdx(df, MonthlyChargesName)]
                         /\ x.k = "num"
                         /\ x.n * days.n * m.d = m.n * days.d * x.d
         ELSE pc' = "analyze" /\ err' = "none" /\ df' = df]_vars

C8_Witness ==
    /\ pc = "analyze"
    /\ days = Num(30, 1)
    /\ HasCol(df, MonthlyChargesName)
    /\ \E r \in 1..Len(df.rows) :
         /\ df.rows[r][ColIdx(df, MonthlyChargesName)] = Num(60, 1)
         /\ df.rows[r][ColIdx(df, DailyChargesName)] = Num(2, 1)

\* C9: create_daily_column leaves every column that existed before the call
\* with the values it had, keeps the rows and their order, and leaves the raw
\* table alone.
C9_OnlyAddsAColumn ==
    [][pc = "derive" =>
         /\ Len(df'.rows) = Len(df.rows)
         /\ \A i \in 1..Len(df.cols) :
              /\ df'.cols[i].name = df.cols[i].name
              /\ Column(df', i) = Column(df, i)
         /\ raw_data' = raw_data]_vars

\* C10: on a raw table with a nested cell of any kind, clean_data returns
\* normally and the table it leaves holds no nested cell.
C10_NestedColumnsStringified ==
    (/\ ~raw_data.none
     /\ pc \notin {"load", "clean"}
     /\ \E r \in 1..Len(raw_data.rows) : \E i \in 1..Len(raw_data.cols) :
          raw_data.rows[r][i].k \in {"dict", "list"}) =>
        /\ failed # "clean"
        /\ \A r \in 1..Len(df.rows) : \A i \in 1..Len(df.cols) :
             df.rows[r][i].k \notin {"dict", "list"}

\* C6: when a run has ended, normally or by an exception, no field holds a
\* value assigned by an earlier run.
C6_FieldsOverwritten ==
    pc \in {"done", "aborted"} => \A f \in Fields : origin[f] # "earlier"

====
